---- MODULE Spec2Model ----
(***************************************************************************)
(* Model of Code/slanggen/encoder.py: the word-vector encoders FTEncoder   *)
(* and FTCachedEncoder (specification Spec) and the sentence encoders      *)
(* SenseEncoder / SBertEncoder (specification SpecSense).                  *)
(***************************************************************************)
EXTENDS Integers, Sequences, FiniteSets, TLC

VARIABLES
    embeddings,   \* FTEncoder.embeddings : dict word -> vector
    vocab,        \* FTEncoder.vocab      : set of words
    E,            \* FTEncoder.E          : embed.shape[1]
    do_cache,     \* FTEncoder.do_cache
    cache,        \* FTEncoder.cache      : [exists, words]; the attribute exists only if do_cache
    file,         \* the pickle file at `path` : [exists, data]
    cached,       \* the FTCachedEncoder built from `path` : [exists, embeddings, vocab, E]
    result,       \* outcome of the last call (return value or raised error)
    trace,        \* history of the calls made on the word encoders
    name,         \* SBertEncoder.name
    sbert_model,  \* SBertEncoder.sbert_model (the model name handed to SentenceTransformer)
    dataset,      \* the dataset handed to encode_dataset
    slang_ind,    \* the split indices handed to encode_dataset
    embeds,       \* the mapping returned by encode_dataset
    calls,        \* the batches handed to encode_sentences, in call order
    sense_last    \* the last call on the sentence encoder and its arguments

word_vars  == <<embeddings, vocab, E, do_cache, cache, file, cached, result, trace>>
sense_vars == <<name, sbert_model, dataset, slang_ind, embeds, calls, sense_last>>
vars       == <<embeddings, vocab, E, do_cache, cache, file, cached, result, trace,
                name, sbert_model, dataset, slang_ind, embeds, calls, sense_last>>

----------------------------------------------------------------------------
(* Bounds *)

MaxOps == 4          \* number of calls made on the word encoders

----------------------------------------------------------------------------
(* Word tables on disk: <name>_word.npy and <name>_embed.npy *)

TableFiles ==
    { [word |-> <<"a", "b">>,      embed |-> <<<<3, 4>>, <<0, 2>>>>],
      [word |-> <<"a", "b", "c">>, embed |-> <<<<1, 0>>, <<0, 0>>, <<2, 2>>>>],
      [word |-> <<"a", "b", "a">>, embed |-> <<<<1, 1>>, <<0, 2>>, <<5, 0>>>>] }

QueryWords == {"a", "b", "c", "z"}

EmptyDict == [w \in {} |-> <<>>]

\* self.embeddings[word[i]] = embed[i]
DictSet(d, k, v) == [w \in (DOMAIN d) \cup {k} |-> IF w = k THEN v ELSE d[w]]

RECURSIVE LoadEmbeddings(_, _, _, _)
\* for i in range(word.shape[0]): self.embeddings[word[i]] = embed[i]
LoadEmbeddings(word, embed, i, acc) ==
    IF i > Len(word) THEN acc
    ELSE LoadEmbeddings(word, embed, i + 1, DictSet(acc, word[i], embed[i]))

\* set(word)
SetOf(seq) == { seq[i] : i \in DOMAIN seq }

\* a lookup that falls back to a zero vector, as self.embeddings.get(word, zeros) would
GetItem_default(d, w) ==
    IF w \in DOMAIN d THEN [kind |-> "ok", value |-> <<d[w]>>]
    ELSE [kind |-> "ok", value |-> <<<<0, 0>>>>]

\* self.embeddings[word]: the vector, or KeyError
GetItem(d, w) ==
    IF w \in DOMAIN d THEN [kind |-> "ok", value |-> <<d[w]>>]
    ELSE [kind |-> "KeyError", value |-> <<>>]

\* a cache that keeps only the last word, as self.cache = {word} would
CacheAdd_overwrite(c, w) == [c EXCEPT !.words = {w}]

\* self.cache.add(word)
CacheAdd(c, w) == [c EXCEPT !.words = @ \cup {w}]

RECURSIVE SumSq(_)
\* np.linalg.norm(vec) ** 2
SumSq(vec) == IF vec = <<>> THEN 0 ELSE Head(vec) * Head(vec) + SumSq(Tail(vec))

Outcome(enc, op, arg, kind, value, normsq) ==
    [enc |-> enc, op |-> op, arg |-> arg, kind |-> kind, value |-> value, normsq |-> normsq]

NoCache == [exists |-> FALSE, words |-> {}]
NoFile == [exists |-> FALSE, data |-> <<>>]
NoCachedEncoder == [exists |-> FALSE, embeddings |-> EmptyDict, vocab |-> {}, E |-> 0]

----------------------------------------------------------------------------
(* FTEncoder *)

\* FTEncoder.__init__(embed_file_name, do_cache)
FTEncoder_init(table, dc) ==
    /\ embeddings = LoadEmbeddings(table.word, table.embed, 1, EmptyDict)
    /\ vocab = SetOf(table.word)
    /\ E = Len(table.embed[1])
    /\ do_cache = dc
    /\ cache = IF dc THEN [exists |-> TRUE, words |-> {}] ELSE NoCache

Logged(op, arg) == trace' = Append(trace, [op |-> op, arg |-> arg])

\* the cache after FTEncoder.embed_word(word)
EmbedWordCache(dc, c, word) == IF dc THEN CacheAdd(c, word) ELSE c

\* FTEncoder.embed_word(word)
FTEncoder_embed_word(word) ==
    /\ Len(trace) < MaxOps
    /\ cache' = EmbedWordCache(do_cache, cache, word)
    /\ LET r == GetItem(embeddings, word)
       IN result' = Outcome("FTEncoder", "embed_word", word, r.kind, r.value, -1)
    /\ Logged("embed_word", word)
    /\ UNCHANGED <<embeddings, vocab, E, do_cache, file, cached>>

\* WordEncoder.norm_embed(word) on an FTEncoder
FTEncoder_norm_embed(word) ==
    /\ Len(trace) < MaxOps
    /\ cache' = EmbedWordCache(do_cache, cache, word)
    /\ LET r == GetItem(embeddings, word)
       IN result' = IF r.kind = "ok"
                    THEN Outcome("FTEncoder", "norm_embed", word, "ok", r.value, SumSq(r.value[1]))
                    ELSE Outcome("FTEncoder", "norm_embed", word, r.kind, <<>>, -1)
    /\ Logged("norm_embed", word)
    /\ UNCHANGED <<embeddings, vocab, E, do_cache, file, cached>>

\* the orders in which `for word in self.cache` can visit the set
Orders(S) == { s \in [1..Cardinality(S) -> S] : SetOf(s) = S }

RECURSIVE BuildOutput(_, _, _, _)
\* output = {}; for word in self.cache: output[word] = self.embeddings[word]
\* the pickled dict is kept as its item list, in insertion order
BuildOutput(emb, order, i, acc) ==
    IF i > Len(order) THEN [kind |-> "ok", data |-> acc]
    ELSE LET r == GetItem(emb, order[i])
         IN IF r.kind = "ok"
            THEN BuildOutput(emb, order, i + 1, Append(acc, [key |-> order[i], vec |-> r.value[1]]))
            ELSE [kind |-> r.kind, data |-> <<>>]

\* FTEncoder.cache_embed(path)
FTEncoder_cache_embed ==
    /\ Len(trace) < MaxOps
    /\ IF ~do_cache
       THEN /\ file' = file
            /\ result' = Outcome("FTEncoder", "cache_embed", "", "ok", <<>>, -1)
       ELSE \E order \in Orders(cache.words) :
              LET out == BuildOutput(embeddings, order, 1, <<>>)
              IN /\ file' = IF out.kind = "ok" THEN [exists |-> TRUE, data |-> out.data] ELSE file
                 /\ result' = Outcome("FTEncoder", "cache_embed", "", out.kind, <<>>, -1)
    /\ Logged("cache_embed", "")
    /\ UNCHANGED <<embeddings, vocab, E, do_cache, cache, cached>>

\* clear_cache without its do_cache guard
ClearedCache_unguarded(dc, c) == [exists |-> TRUE, words |-> {}]

\* the cache after FTEncoder.clear_cache()
ClearedCache(dc, c) == IF ~dc THEN c ELSE [exists |-> TRUE, words |-> {}]

\* a clear_cache that also empties the word table
FTEncoder_clear_cache_wipes ==
    /\ Len(trace) < MaxOps
    /\ cache' = ClearedCache(do_cache, cache)
    /\ embeddings' = EmptyDict
    /\ vocab' = {}
    /\ result' = Outcome("FTEncoder", "clear_cache", "", "ok", <<>>, -1)
    /\ Logged("clear_cache", "")
    /\ UNCHANGED <<E, do_cache, file, cached>>

\* FTEncoder.clear_cache()
FTEncoder_clear_cache ==
    /\ Len(trace) < MaxOps
    /\ cache' = ClearedCache(do_cache, cache)
    /\ result' = Outcome("FTEncoder", "clear_cache", "", "ok", <<>>, -1)
    /\ Logged("clear_cache", "")
    /\ UNCHANGED <<embeddings, vocab, E, do_cache, file, cached>>

----------------------------------------------------------------------------
(* FTCachedEncoder *)

RECURSIVE Unpickle(_, _, _)
\* pickle.load: rebuild the dict from its pickled items
Unpickle(data, i, acc) ==
    IF i > Len(data) THEN acc
    ELSE Unpickle(data, i + 1, DictSet(acc, data[i].key, data[i].vec))

\* FTCachedEncoder.__init__(embed_file_name): the object built, or the error raised
FTCachedEncoder_new(f) ==
    IF ~f.exists THEN [kind |-> "FileNotFoundError", obj |-> NoCachedEncoder]
    ELSE LET emb == Unpickle(f.data, 1, EmptyDict)
         IN IF DOMAIN emb = {}
            THEN [kind |-> "IndexError", obj |-> NoCachedEncoder]
            ELSE [kind |-> "ok",
                  obj |-> [exists |-> TRUE, embeddings |-> emb, vocab |-> DOMAIN emb,
                           E |-> Len(emb[f.data[1].key])]]

\* FTCachedEncoder(path)
FTCachedEncoder_init ==
    /\ Len(trace) < MaxOps
    /\ LET r == FTCachedEncoder_new(file)
       IN /\ cached' = IF r.kind = "ok" THEN r.obj ELSE cached
          /\ result' = Outcome("FTCachedEncoder", "__init__", "", r.kind, <<>>, -1)
    /\ Logged("FTCachedEncoder", "")
    /\ UNCHANGED <<embeddings, vocab, E, do_cache, cache, file>>

\* FTCachedEncoder.embed_word(word)
FTCachedEncoder_embed_word(word) ==
    /\ Len(trace) < MaxOps
    /\ cached.exists
    /\ LET r == GetItem(cached.embeddings, word)
       IN result' = Outcome("FTCachedEncoder", "embed_word", word, r.kind, r.value, -1)
    /\ Logged("cached_embed_word", word)
    /\ UNCHANGED <<embeddings, vocab, E, do_cache, cache, file, cached>>

\* WordEncoder.norm_embed(word) on an FTCachedEncoder
FTCachedEncoder_norm_embed(word) ==
    /\ Len(trace) < MaxOps
    /\ cached.exists
    /\ LET r == GetItem(cached.embeddings, word)
       IN result' = IF r.kind = "ok"
                    THEN Outcome("FTCachedEncoder", "norm_embed", word, "ok", r.value, SumSq(r.value[1]))
                    ELSE Outcome("FTCachedEncoder", "norm_embed", word, r.kind, <<>>, -1)
    /\ Logged("cached_norm_embed", word)
    /\ UNCHANGED <<embeddings, vocab, E, do_cache, cache, file, cached>>

----------------------------------------------------------------------------
(* SenseEncoder / SBertEncoder *)

MaxInd == 1          \* length of each split's index sequence
MaxVocab == 2        \* length of dataset.vocab

None == "<None>"

ModelNames == {None, "roberta-large", "distilbert"}
Names == {None, "my_encoder", "baseline"}

\* dataset.slang_data[i].def_sent
SlangData == <<"Very Cool", "A bad thing">>

\* dataset.conv_data[word].definitions, each d['def']
ConvData ==
    [w \in {"lit", "salty", "ghost"} |->
        CASE w = "lit"   -> <<"Set on fire", "drunk">>
          [] w = "salty" -> <<>>
          [] w = "ghost" -> <<"A spirit">>]

SeqsUpTo(S, n) == UNION { [1..k -> S] : k \in 0..n }

\* ' '.join(simple_preprocess(text)): lower-cased tokens of 2..15 letters, rejoined
Preprocess(text) ==
    CASE text = "Very Cool"   -> "very cool"
      [] text = "A bad thing" -> "bad thing"
      [] text = "Set on fire" -> "set on fire"
      [] text = "drunk"       -> "drunk"
      [] text = "A spirit"    -> "spirit"

\* self.sbert_model.encode: one raw vector per sentence
ModelEncode(sentence) ==
    CASE sentence = "very cool"   -> <<3, 4>>
      [] sentence = "bad thing"   -> <<1, 0>>
      [] sentence = "set on fire" -> <<0, 2>>
      [] sentence = "drunk"       -> <<1, 1>>
      [] sentence = "spirit"      -> <<2, 1>>

\* one row of normalize_L2(sbert_embeddings, axis=1): raw / sqrt(normsq)
NormalizedRow(raw) == [raw |-> raw, normsq |-> SumSq(raw)]

\* SBertEncoder.encode_sentences(sentences)
encode_sentences(sentences) ==
    [i \in 1..Len(sentences) |-> NormalizedRow(ModelEncode(sentences[i]))]

\* self.name as set by SBertEncoder.__init__
SBertName(sbert_model_name, nm) ==
    IF sbert_model_name = None THEN "sbert_base"
    ELSE IF nm # None THEN nm
    ELSE sbert_model_name

\* the model name handed to SentenceTransformer by SBertEncoder.__init__
SBertModel(sbert_model_name) ==
    IF sbert_model_name = None THEN "bert-base-nli-mean-tokens" ELSE sbert_model_name

RECURSIVE collect_slang_sents(_, _, _, _)
\* for i in ind: sentences.append(' '.join(simple_preprocess(dataset.slang_data[i].def_sent)))
collect_slang_sents(ds, ind, k, sentences) ==
    IF k > Len(ind) THEN sentences
    ELSE collect_slang_sents(ds, ind, k + 1,
                             Append(sentences, Preprocess(ds.slang_data[ind[k] + 1])))

RECURSIVE CollectDefinitions(_, _, _)
\* for d in dataset.conv_data[word].definitions: sentences.append(' '.join(simple_preprocess(d['def'])))
CollectDefinitions(definitions, j, sentences) ==
    IF j > Len(definitions) THEN sentences
    ELSE CollectDefinitions(definitions, j + 1, Append(sentences, Preprocess(definitions[j])))

RECURSIVE StandardSentences_unique(_, _, _)
\* a flattening that visits each distinct vocabulary word once, as `for word in set(vocab)` would
StandardSentences_unique(ds, i, sentences) ==
    IF i > Len(ds.vocab) THEN sentences
    ELSE IF \E k \in 1..(i - 1) : ds.vocab[k] = ds.vocab[i]
         THEN StandardSentences_unique(ds, i + 1, sentences)
         ELSE StandardSentences_unique(ds, i + 1,
                  CollectDefinitions(ds.conv_data[ds.vocab[i]], 1, sentences))

RECURSIVE StandardSentences(_, _, _)
\* for i in range(len(dataset.vocab)): word = dataset.vocab[i]; ...
StandardSentences(ds, i, sentences) ==
    IF i > Len(ds.vocab) THEN sentences
    ELSE StandardSentences(ds, i + 1,
                           CollectDefinitions(ds.conv_data[ds.vocab[i]], 1, sentences))

\* embeds[key] = self.encode_sentences(collect_slang_sents(dataset, slang_ind.<key>))
EncodeSplit(st, ds, ind, key) ==
    LET sentences == collect_slang_sents(ds, ind[key], 1, <<>>)
    IN [embeds |-> DictSet(st.embeds, key, encode_sentences(sentences)),
        calls  |-> Append(st.calls, sentences),
        reads  |-> Append(st.reads, key)]

\* embeds['standard'] = self.encode_sentences(sentences)
EncodeStandard(st, ds) ==
    LET sentences == StandardSentences(ds, 1, <<>>)
    IN [embeds |-> DictSet(st.embeds, "standard", encode_sentences(sentences)),
        calls  |-> Append(st.calls, sentences),
        reads  |-> st.reads]

EmptyEmbeds == [k \in {} |-> <<>>]

\* a test branch that ignores encode_test
EncodeTest_always(st, ds, ind, encode_test) == EncodeSplit(st, ds, ind, "test")

\* the test branch of encode_dataset
EncodeTest(st, ds, ind, encode_test) ==
    IF encode_test THEN EncodeSplit(st, ds, ind, "test") ELSE st

\* SenseEncoder.encode_dataset(dataset, slang_ind, encode_test), as a run of its statements
EncodeDatasetRun(ds, ind, encode_test) ==
    LET s0 == [embeds |-> EmptyEmbeds, calls |-> <<>>, reads |-> <<>>]
        s1 == EncodeSplit(s0, ds, ind, "train")
        s2 == EncodeSplit(s1, ds, ind, "dev")
        s3 == EncodeTest(s2, ds, ind, encode_test)
    IN EncodeStandard(s3, ds)

\* SBertEncoder(sbert_model_name, name)
SBertEncoder_init(sbert_model_name, nm) ==
    /\ name' = SBertName(sbert_model_name, nm)
    /\ sbert_model' = SBertModel(sbert_model_name)
    /\ embeds' = EmptyEmbeds
    /\ calls' = <<>>
    /\ sense_last' = [op |-> "SBertEncoder", sbert_model_name |-> sbert_model_name,
                      name |-> nm, encode_test |-> FALSE, reads |-> <<>>]
    /\ UNCHANGED <<dataset, slang_ind>>

\* SenseEncoder.encode_dataset(dataset, slang_ind, encode_test)
SenseEncoder_encode_dataset(encode_test) ==
    /\ LET run == EncodeDatasetRun(dataset, slang_ind, encode_test)
       IN /\ embeds' = run.embeds
          /\ calls' = run.calls
          /\ sense_last' = [sense_last EXCEPT !.op = "encode_dataset",
                                              !.encode_test = encode_test,
                                              !.reads = run.reads]
    /\ UNCHANGED <<name, sbert_model, dataset, slang_ind>>

----------------------------------------------------------------------------
(* Specifications *)

Datasets ==
    { [slang_data |-> SlangData, vocab |-> v, conv_data |-> ConvData] :
        v \in SeqsUpTo(DOMAIN ConvData, MaxVocab) }

SplitIndices ==
    [train : SeqsUpTo(0..(Len(SlangData) - 1), MaxInd),
     dev   : SeqsUpTo(0..(Len(SlangData) - 1), MaxInd),
     test  : SeqsUpTo(0..(Len(SlangData) - 1), MaxInd)]

\* the sentence encoder as constructed with (sbert_model_name, nm), before any encode_dataset
SenseInit(sbert_model_name, nm, ds, ind) ==
    /\ name = SBertName(sbert_model_name, nm)
    /\ sbert_model = SBertModel(sbert_model_name)
    /\ dataset = ds
    /\ slang_ind = ind
    /\ embeds = EmptyEmbeds
    /\ calls = <<>>
    /\ sense_last = [op |-> "SBertEncoder", sbert_model_name |-> sbert_model_name,
                     name |-> nm, encode_test |-> FALSE, reads |-> <<>>]

WordInit(table, dc) ==
    /\ FTEncoder_init(table, dc)
    /\ file = NoFile
    /\ cached = NoCachedEncoder
    /\ result = Outcome("FTEncoder", "__init__", "", "ok", <<>>, -1)
    /\ trace = <<>>

DefaultTable == [word |-> <<"a", "b">>, embed |-> <<<<3, 4>>, <<0, 2>>>>]
DefaultDataset == [slang_data |-> SlangData, vocab |-> <<>>, conv_data |-> ConvData]
DefaultIndices == [train |-> <<>>, dev |-> <<>>, test |-> <<>>]

Init ==
    /\ \E table \in TableFiles, dc \in BOOLEAN : WordInit(table, dc)
    /\ SenseInit(None, None, DefaultDataset, DefaultIndices)

Next ==
    \/ \E word \in QueryWords : FTEncoder_embed_word(word) /\ UNCHANGED sense_vars
    \/ \E word \in QueryWords : FTEncoder_norm_embed(word) /\ UNCHANGED sense_vars
    \/ FTEncoder_cache_embed /\ UNCHANGED sense_vars
    \/ FTEncoder_clear_cache /\ UNCHANGED sense_vars
    \/ FTCachedEncoder_init /\ UNCHANGED sense_vars
    \/ \E word \in QueryWords : FTCachedEncoder_embed_word(word) /\ UNCHANGED sense_vars
    \/ \E word \in QueryWords : FTCachedEncoder_norm_embed(word) /\ UNCHANGED sense_vars

Spec == Init /\ [][Next]_vars

InitSense ==
    /\ WordInit(DefaultTable, FALSE)
    /\ \E ds \in Datasets, ind \in SplitIndices : SenseInit(None, None, ds, ind)

NextSense ==
    \/ \E m \in ModelNames, nm \in Names : SBertEncoder_init(m, nm) /\ UNCHANGED word_vars
    \/ \E encode_test \in BOOLEAN : SenseEncoder_encode_dataset(encode_test) /\ UNCHANGED word_vars

SpecSense == InitSense /\ [][NextSense]_vars

----------------------------------------------------------------------------
(* Properties of the word encoders, under Spec *)

IsLookup(call) == call.op \in {"embed_word", "norm_embed"}

RECURSIVE LookedUpSinceClear(_, _, _)
\* the words handed to FTEncoder.embed_word (directly or through norm_embed)
\* since the last clear_cache, read off the call history
LookedUpSinceClear(t, i, acc) ==
    IF i > Len(t) THEN acc
    ELSE LookedUpSinceClear(t, i + 1,
            IF t[i].op = "clear_cache" THEN {}
            ELSE IF IsLookup(t[i]) THEN acc \cup {t[i].arg}
            ELSE acc)

OnlyPresentLookups ==
    \A i \in 1..Len(trace) : IsLookup(trace[i]) => trace[i].arg \in DOMAIN embeddings

\* C1: with do_cache=True, after any sequence of lookups of words present in the
\* table and clear_cache calls, the cache is exactly the set of distinct words
\* looked up since construction or the last clear_cache (so it is empty right
\* after either, and a repeated word is held once).
C1_CacheIsLookedUpSet ==
    (do_cache /\ OnlyPresentLookups) =>
        /\ cache.exists
        /\ cache.words = LookedUpSinceClear(trace, 1, {})

\* lookups a, b, a leave exactly {a, b}
C1_Witness ==
    /\ do_cache
    /\ Len(trace) = 3
    /\ \A i \in 1..3 : trace[i].op = "embed_word"
    /\ <<trace[1].arg, trace[2].arg, trace[3].arg>> = <<"a", "b", "a">>
    /\ cache.words = {"a", "b"}

FileKeys == { file.data[i].key : i \in 1..Len(file.data) }

\* C2: with tracking on, cache_embed writes a mapping whose keys are exactly the
\* cache and whose values are the table's vectors, and changes neither the cache
\* nor the table.
C2_ExportWritesCache ==
    [][(do_cache /\ result'.op = "cache_embed") =>
          /\ result'.kind = "ok"
          /\ file'.exists
          /\ FileKeys' = cache.words
          /\ \A i \in 1..Len(file'.data) : file'.data[i].vec = embeddings[file'.data[i].key]
          /\ cache' = cache
          /\ <<embeddings, vocab, E>>' = <<embeddings, vocab, E>>]_vars

ResultTable == IF result.enc = "FTEncoder" THEN embeddings ELSE cached.embeddings

\* C3: embed_word and norm_embed of a word that is not a key of the table raise
\* KeyError and return no vector, on FTEncoder (tracking on or off) and on
\* FTCachedEncoder.
C3_MissingKeyFails ==
    (result.op \in {"embed_word", "norm_embed"} /\ result.arg \notin DOMAIN ResultTable) =>
        /\ result.kind = "KeyError"
        /\ result.value = <<>>

\* norm_embed on an FTCachedEncoder of a word the full table has but the export lacks
C3_Witness ==
    /\ result.enc = "FTCachedEncoder"
    /\ result.op = "norm_embed"
    /\ result.arg \in vocab
    /\ result.arg \notin cached.vocab
    /\ result.kind = "KeyError"

EncoderState == <<embeddings, vocab, E, do_cache, cache, file, cached>>

\* C4: with do_cache=False, embed_word records nothing, and cache_embed and
\* clear_cache raise nothing, write no file and leave the encoder as it was.
C4_UntrackedNoOps ==
    [][~do_cache =>
          /\ cache' = NoCache
          /\ ~file'.exists
          /\ (result'.op \in {"cache_embed", "clear_cache"} =>
                 /\ result'.kind = "ok"
                 /\ EncoderState' = EncoderState)]_vars

\* a lookup, then cache_embed and clear_cache, on an encoder without tracking
C4_Witness ==
    /\ ~do_cache
    /\ Len(trace) = 3
    /\ trace[1].op = "embed_word"
    /\ trace[2].op = "cache_embed"
    /\ trace[3].op = "clear_cache"
    /\ ~file.exists
    /\ cache = NoCache

\* C5: exporting any reachable cache (the empty one included) and building an
\* FTCachedEncoder from the file succeeds, with vocab equal to the exported
\* words, the same E, and the same vector for every exported word.
C5_RoundTrip ==
    (/\ do_cache
     /\ Len(trace) >= 2
     /\ trace[Len(trace) - 1].op = "cache_embed"
     /\ trace[Len(trace)].op = "FTCachedEncoder") =>
        /\ result.kind = "ok"
        /\ cached.exists
        /\ cached.vocab = cache.words
        /\ cached.E = E
        /\ \A w \in cache.words : cached.embeddings[w] = embeddings[w]

\* C9: no call made after construction changes a word table: embeddings, vocab
\* and E of the FTEncoder stay as loaded, and an FTCachedEncoder's table stays
\* as loaded until another one is constructed.
C9_TableImmutable ==
    [][/\ <<embeddings, vocab, E>>' = <<embeddings, vocab, E>>
       /\ (result'.op # "__init__" => cached' = cached)]_vars

\* the cache was filled (one lookup failing) and then cleared, the table intact
C9_Witness ==
    /\ do_cache
    /\ Len(trace) = 3
    /\ trace[1] = [op |-> "embed_word", arg |-> "a"]
    /\ trace[2] = [op |-> "embed_word", arg |-> "z"]
    /\ trace[3].op = "clear_cache"
    /\ cache.words = {}
    /\ vocab = DOMAIN embeddings
    /\ "a" \in vocab

\* C10: in a tracking FTEncoder every cached word is a key of the table, whatever
\* words were looked up.
C10_CacheWithinTable ==
    do_cache => cache.words \subseteq DOMAIN embeddings

----------------------------------------------------------------------------
(* Properties of the sentence encoders, under SpecSense *)

\* C6: the name is 'sbert_base' only when neither a name nor a model name is
\* given; a given name is always used, and otherwise a given model name is.
C6_NameRule ==
    LET m == sense_last.sbert_model_name
        n == sense_last.name
    IN /\ (name = "sbert_base" => (m = None /\ n = None))
       /\ (n # None => name = n)
       /\ ((n = None /\ m # None) => name = m)

\* the sentences of one split, by position
SplitSentences(key) ==
    [k \in 1..Len(slang_ind[key]) |-> Preprocess(dataset.slang_data[slang_ind[key][k] + 1])]

Definitions(i) == dataset.conv_data[dataset.vocab[i]]

RECURSIVE Offset(_)
\* the number of definition entries of the vocabulary words before position i
Offset(i) == IF i <= 1 THEN 0 ELSE Offset(i - 1) + Len(Definitions(i - 1))

TotalDefinitions == Offset(Len(dataset.vocab) + 1)

\* C7: encode_dataset returns keys {train, dev, standard}, plus test exactly when
\* encode_test; the test indices are read and encoded only then; encode_sentences
\* is called once per key, in the order train, dev, (test), standard.
C7_SplitKeys ==
    sense_last.op = "encode_dataset" =>
        LET et == sense_last.encode_test
        IN /\ DOMAIN embeds = IF et THEN {"train", "dev", "test", "standard"}
                                    ELSE {"train", "dev", "standard"}
           /\ sense_last.reads = IF et THEN <<"train", "dev", "test">> ELSE <<"train", "dev">>
           /\ Len(calls) = Cardinality(DOMAIN embeds)
           /\ calls[1] = SplitSentences("train")
           /\ calls[2] = SplitSentences("dev")
           /\ (et => calls[3] = SplitSentences("test"))
           /\ Len(calls[Len(calls)]) = TotalDefinitions

\* encode_test=False with a non-empty test split: no test key
C7_Witness ==
    /\ sense_last.op = "encode_dataset"
    /\ ~sense_last.encode_test
    /\ slang_ind.test # <<>>
    /\ slang_ind.test # slang_ind.dev
    /\ "test" \notin DOMAIN embeds
    /\ Len(calls) = 3

\* C8: the 'standard' batch holds one sentence per definition entry of every
\* vocabulary word, by vocabulary position and then by definition position, and
\* the 'standard' vectors are those of that batch, one for one.
C8_StandardOrder ==
    sense_last.op = "encode_dataset" =>
        LET std == calls[Len(calls)]
        IN /\ Len(std) = TotalDefinitions
           /\ \A i \in 1..Len(dataset.vocab) :
                 \A j \in 1..Len(Definitions(i)) :
                    std[Offset(i) + j] = Preprocess(Definitions(i)[j])
           /\ Len(embeds["standard"]) = Len(std)
           /\ \A k \in 1..Len(std) :
                 embeds["standard"][k] = NormalizedRow(ModelEncode(std[k]))

\* a repeated vocabulary word contributes its definitions twice
C8_Witness ==
    /\ sense_last.op = "encode_dataset"
    /\ dataset.vocab = <<"lit", "lit">>
    /\ calls[Len(calls)] = <<"set on fire", "drunk", "set on fire", "drunk">>
    /\ Len(embeds["standard"]) = 4

====
